---- MODULE Spec2Model ----
(***************************************************************************)
(* Model of bborbe/docker_utils: the Registry value of registry.go (its    *)
(* validation, credential-store extraction, token login and request        *)
(* authentication) and the command docker_remote_repositories (do).        *)
(*                                                                         *)
(* A Go string is a sequence of byte values (0..255); the text a literal   *)
(* stands for is given in the comment beside it.  A Go error is a TLA+     *)
(* string naming it, and "nil" is the nil error.                           *)
(***************************************************************************)
EXTENDS Integers, Sequences, FiniteSets, TLC

(* ------------------------------ bounds --------------------------------- *)

\* longest username / password a caller of the library sets explicitly
MaxLen == 2
\* longest decoded auth blob held by the credential store
MaxBlobLen == 4
\* longest username / password of the login-request specification
MaxCredLen == 2
\* most repositories a listing call returns
MaxRepos == 2

(* ------------------------------ strings -------------------------------- *)

\* every sequence over alphabet `chars` of length at most n
RECURSIVE StrUpTo(_, _)
StrUpTo(chars, n) ==
    IF n = 0 THEN {<<>>}
    ELSE LET shorter == StrUpTo(chars, n - 1)
         IN  shorter \cup {Append(s, c) : s \in shorter, c \in chars}

\* the index of the first occurrence of byte c in s, 0 when there is none
IndexByte(s, c) ==
    IF \E i \in 1..Len(s) : s[i] = c
    THEN CHOOSE i \in 1..Len(s) : s[i] = c /\ \A j \in 1..(i - 1) : s[j] # c
    ELSE 0

\* a faulty variant of SplitN2: strings.Split, cut at every separator
RECURSIVE SplitEvery(_, _)
SplitEvery(s, sep) ==
    LET i == IndexByte(s, sep)
    IN  IF i = 0 THEN <<s>>
        ELSE <<SubSeq(s, 1, i - 1)>> \o SplitEvery(SubSeq(s, i + 1, Len(s)), sep)

\* strings.SplitN(s, sep, 2) for a one-byte separator: at most two parts,
\* cut at the first occurrence of the separator
SplitN2(s, sep) ==
    LET i == IndexByte(s, sep)
    IN  IF i = 0 THEN <<s>>
        ELSE <<SubSeq(s, 1, i - 1), SubSeq(s, i + 1, Len(s))>>

\* the bytes strings.TrimSpace removes (ASCII white space: \t \n \v \f \r ' ')
IsSpace(c) == c \in {9, 10, 11, 12, 13, 32}

\* strings.TrimSpace: leading and trailing white space removed, the interior kept
TrimSpace(s) ==
    LET keep == {i \in 1..Len(s) : ~IsSpace(s[i])}
    IN  IF keep = {} THEN <<>>
        ELSE LET lo == CHOOSE i \in keep : \A j \in keep : i <= j
                 hi == CHOOSE i \in keep : \A j \in keep : j <= i
             IN  SubSeq(s, lo, hi)

(* ------------------------------ base64 --------------------------------- *)

\* base64.StdEncoding's alphabet: A-Z a-z 0-9 + /
B64Alphabet ==
    <<65, 66, 67, 68, 69, 70, 71, 72, 73, 74, 75, 76, 77, 78, 79, 80, 81, 82,
      83, 84, 85, 86, 87, 88, 89, 90, 97, 98, 99, 100, 101, 102, 103, 104,
      105, 106, 107, 108, 109, 110, 111, 112, 113, 114, 115, 116, 117, 118,
      119, 120, 121, 122, 48, 49, 50, 51, 52, 53, 54, 55, 56, 57, 43, 47>>

\* '=', base64.StdPadding
B64Pad == <<61>>

IsB64(c) == \E i \in 1..64 : B64Alphabet[i] = c

\* the 6-bit value of an alphabet byte
B64Val(c) == (CHOOSE i \in 1..64 : B64Alphabet[i] = c) - 1

\* base64.StdEncoding.EncodeToString
RECURSIVE Base64Encode(_)
Base64Encode(b) ==
    LET E(v) == B64Alphabet[v + 1]
    IN  IF Len(b) = 0 THEN <<>>
        ELSE IF Len(b) = 1
        THEN <<E(b[1] \div 4), E((b[1] % 4) * 16)>> \o B64Pad \o B64Pad
        ELSE IF Len(b) = 2
        THEN <<E(b[1] \div 4), E((b[1] % 4) * 16 + b[2] \div 16),
               E((b[2] % 16) * 4)>> \o B64Pad
        ELSE <<E(b[1] \div 4), E((b[1] % 4) * 16 + b[2] \div 16),
               E((b[2] % 16) * 4 + b[3] \div 64), E(b[3] % 64)>>
             \o Base64Encode(SubSeq(b, 4, Len(b)))

\* one quantum of four input bytes at a time; padding ends the input
RECURSIVE B64DecodeQuanta(_)
B64DecodeQuanta(t) ==
    IF Len(t) = 0 THEN [ok |-> TRUE, value |-> <<>>]
    ELSE IF Len(t) < 4 THEN [ok |-> FALSE, value |-> <<>>]
    ELSE IF ~IsB64(t[1]) \/ ~IsB64(t[2]) THEN [ok |-> FALSE, value |-> <<>>]
    ELSE LET v1 == B64Val(t[1])
             v2 == B64Val(t[2])
             b1 == v1 * 4 + v2 \div 16
         IN  IF t[3] = B64Pad[1]
             THEN IF t[4] = B64Pad[1] /\ Len(t) = 4
                  THEN [ok |-> TRUE, value |-> <<b1>>]
                  ELSE [ok |-> FALSE, value |-> <<>>]
             ELSE IF ~IsB64(t[3]) THEN [ok |-> FALSE, value |-> <<>>]
             ELSE LET v3 == B64Val(t[3])
                      b2 == (v2 % 16) * 16 + v3 \div 4
                  IN  IF t[4] = B64Pad[1]
                      THEN IF Len(t) = 4
                           THEN [ok |-> TRUE, value |-> <<b1, b2>>]
                           ELSE [ok |-> FALSE, value |-> <<>>]
                      ELSE IF ~IsB64(t[4]) THEN [ok |-> FALSE, value |-> <<>>]
                      ELSE LET b3   == (v3 % 4) * 64 + B64Val(t[4])
                               rest == B64DecodeQuanta(SubSeq(t, 5, Len(t)))
                           IN  [ok    |-> rest.ok,
                                value |-> <<b1, b2, b3>> \o rest.value]

\* base64.StdEncoding.DecodeString: \r and \n are ignored, the padding is
\* required, and the unused bits of the last quantum are not checked
Base64Decode(s) ==
    B64DecodeQuanta(SelectSeq(s, LAMBDA c : c \notin {10, 13}))

(* ------------------------------- JSON ---------------------------------- *)
(* encoding/json as far as the login exchange uses it: one object whose    *)
(* members are strings.  Any other value, and a \u escape, is reported as  *)
(* malformed; the bodies drawn below hold neither.  Decoder.Decode reads   *)
(* the first value of the stream and leaves what follows it unread.        *)

IsJsonSpace(c) == c \in {9, 10, 13, 32}

\* the first index at or after i that holds no white space (Len(s) + 1 at the end)
RECURSIVE SkipSpace(_, _)
SkipSpace(s, i) ==
    IF i <= Len(s) /\ IsJsonSpace(s[i]) THEN SkipSpace(s, i + 1) ELSE i

\* the byte a backslash escape stands for: \" \\ \/ \b \f \n \r \t
JsonEscape(c) ==
    CASE c = 34  -> <<34>>
      [] c = 92  -> <<92>>
      [] c = 47  -> <<47>>
      [] c = 98  -> <<8>>
      [] c = 102 -> <<12>>
      [] c = 110 -> <<10>>
      [] c = 114 -> <<13>>
      [] c = 116 -> <<9>>
      [] OTHER   -> <<>>

\* the string literal whose opening quote precedes index j, read up to its
\* closing quote: [ok, val, next]
RECURSIVE JsonStringBody(_, _, _)
JsonStringBody(s, j, acc) ==
    IF j > Len(s) THEN [ok |-> FALSE, val |-> <<>>, next |-> j]
    ELSE IF s[j] = 34 THEN [ok |-> TRUE, val |-> acc, next |-> j + 1]
    ELSE IF s[j] = 92
    THEN IF j + 1 > Len(s) \/ JsonEscape(s[j + 1]) = <<>>
         THEN [ok |-> FALSE, val |-> <<>>, next |-> j]
         ELSE JsonStringBody(s, j + 2, acc \o JsonEscape(s[j + 1]))
    ELSE IF s[j] < 32 THEN [ok |-> FALSE, val |-> <<>>, next |-> j]
    ELSE JsonStringBody(s, j + 1, Append(acc, s[j]))

JsonString(s, i) ==
    IF i <= Len(s) /\ s[i] = 34
    THEN JsonStringBody(s, i + 1, <<>>)
    ELSE [ok |-> FALSE, val |-> <<>>, next |-> i]

\* the members of an object from index i on, i at the first member's key
RECURSIVE JsonMembers(_, _, _)
JsonMembers(s, i, acc) ==
    LET key   == JsonString(s, i)
        colon == SkipSpace(s, key.next)
        val   == JsonString(s, SkipSpace(s, colon + 1))
        sep   == SkipSpace(s, val.next)
        bad   == [ok |-> FALSE, members |-> <<>>]
    IN  IF ~key.ok THEN bad
        ELSE IF colon > Len(s) \/ s[colon] # 58 THEN bad
        ELSE IF ~val.ok THEN bad
        ELSE IF sep > Len(s) THEN bad
        ELSE IF s[sep] = 125
        THEN [ok |-> TRUE, members |-> Append(acc, <<key.val, val.val>>)]
        ELSE IF s[sep] = 44
        THEN JsonMembers(s, SkipSpace(s, sep + 1),
                         Append(acc, <<key.val, val.val>>))
        ELSE bad

\* json.Decoder.Decode of an object of strings: [ok, members]
JsonDecodeObject(s) ==
    LET open  == SkipSpace(s, 1)
        first == SkipSpace(s, open + 1)
    IN  IF open > Len(s) \/ s[open] # 123 THEN [ok |-> FALSE, members |-> <<>>]
        ELSE IF first <= Len(s) /\ s[first] = 125
        THEN [ok |-> TRUE, members |-> <<>>]
        ELSE JsonMembers(s, first, <<>>)

\* the value decoded into a struct field tagged `key`: that of the last
\* member named key, the zero value "" when there is none
JsonField(members, key) ==
    LET at == {i \in 1..Len(members) : members[i][1] = key}
    IN  IF at = {} THEN <<>>
        ELSE members[CHOOSE i \in at : \A j \in at : j <= i][2]

(* ---------------------------- registry.go ------------------------------ *)

\* "docker.io"
DockerHub == <<100, 111, 99, 107, 101, 114, 46, 105, 111>>
\* "https://hub.docker.com"
HubUrl ==
    <<104, 116, 116, 112, 115, 58, 47, 47, 104, 117, 98, 46, 100, 111, 99,
      107, 101, 114, 46, 99, 111, 109>>
\* "https://"
Https == <<104, 116, 116, 112, 115, 58, 47, 47>>
\* "https://index.docker.io/v1/"
IndexUrl ==
    <<104, 116, 116, 112, 115, 58, 47, 47, 105, 110, 100, 101, 120, 46, 100,
      111, 99, 107, 101, 114, 46, 105, 111, 47, 118, 49, 47>>
\* "/v2/users/login/"
LoginPath ==
    <<47, 118, 50, 47, 117, 115, 101, 114, 115, 47, 108, 111, 103, 105, 110, 47>>
\* "token", "username", "password"
TokenKey == <<116, 111, 107, 101, 110>>
UsernameKey == <<117, 115, 101, 114, 110, 97, 109, 101>>
PasswordKey == <<112, 97, 115, 115, 119, 111, 114, 100>>
\* "JWT " and "Basic "
JwtScheme == <<74, 87, 84, 32>>
BasicScheme == <<66, 97, 115, 105, 99, 32>>
\* ":"
Colon == <<58>>

\* RegistryName.IsDockerHub
IsDockerHub(name) == DockerHub = name

\* RegistryName.Url
Url(name) == IF IsDockerHub(name) THEN HubUrl ELSE Https \o name

\* RegistryName.Validate, RegistryUsername.Validate, RegistryPassword.Validate
NameValidate(name) == IF Len(name) = 0 THEN "registry empty" ELSE "nil"
UsernameValidate(u) == IF Len(u) = 0 THEN "username empty" ELSE "nil"
PasswordValidate(p) == IF Len(p) = 0 THEN "password empty" ELSE "nil"

\* a faulty variant of Validate: the password is not looked at
ValidateSkipsPassword(reg) ==
    IF NameValidate(reg.Name) # "nil" THEN NameValidate(reg.Name)
    ELSE UsernameValidate(reg.Username)

\* Registry.Validate: the first failing field's error
Validate(reg) ==
    IF NameValidate(reg.Name) # "nil" THEN NameValidate(reg.Name)
    ELSE IF UsernameValidate(reg.Username) # "nil"
    THEN UsernameValidate(reg.Username)
    ELSE IF PasswordValidate(reg.Password) # "nil"
    THEN PasswordValidate(reg.Password)
    ELSE "nil"

\* RegistryPasswordFromFile: file is [readable, content]
RegistryPasswordFromFile(file) ==
    IF ~file.readable THEN [password |-> <<>>, err |-> "read file failed"]
    ELSE [password |-> TrimSpace(file.content), err |-> "nil"]

\* a faulty variant of nameToDomain: every name is its own domain
nameToDomainIdentity(name) == name

\* nameToDomain
nameToDomain(name) == IF IsDockerHub(name) THEN IndexUrl ELSE name

\* a faulty variant of CredentialsFromDockerConfig: Username is assigned
\* before the number of parts is checked
CredentialsAssignedBeforeCheck(reg, reader) ==
    IF reader.json # "ok" THEN [err |-> "decode json failed", reg |-> reg]
    ELSE IF nameToDomain(reg.Name) \notin DOMAIN reader.auths
    THEN [err |-> "domain not found in docker config", reg |-> reg]
    ELSE LET value == Base64Decode(reader.auths[nameToDomain(reg.Name)])
             parts == SplitN2(value.value, Colon[1])
         IN  IF ~value.ok
             THEN [err |-> "base64 decode auth failed", reg |-> reg]
             ELSE IF Len(parts) # 2
             THEN [err |-> "split auth failed",
                   reg |-> [reg EXCEPT !.Username = parts[1]]]
             ELSE [err |-> "nil",
                   reg |-> [reg EXCEPT !.Username = parts[1],
                                       !.Password = parts[2]]]

\* Registry.CredentialsFromDockerConfig.  reader is what json.Decoder makes
\* of the stream: [json |-> "malformed"] or the decoded document, auths
\* mapping each domain to its auth string.  The result is [err, reg].
CredentialsFromDockerConfig(reg, reader) ==
    IF reader.json # "ok" THEN [err |-> "decode json failed", reg |-> reg]
    ELSE IF nameToDomain(reg.Name) \notin DOMAIN reader.auths
    THEN [err |-> "domain not found in docker config", reg |-> reg]
    ELSE LET value == Base64Decode(reader.auths[nameToDomain(reg.Name)])
             parts == SplitN2(value.value, Colon[1])
         IN  IF ~value.ok
             THEN [err |-> "base64 decode auth failed", reg |-> reg]
             ELSE IF Len(parts) # 2
             THEN [err |-> "split auth failed", reg |-> reg]
             ELSE [err |-> "nil",
                   reg |-> [reg EXCEPT !.Username = parts[1],
                                       !.Password = parts[2]]]

\* Registry.ReadCredentialsFromDockerConfig.  home is the user's
\* ~/.docker/config.json: [normalize, open, reader]
ReadCredentialsFromDockerConfig(reg, home) ==
    IF home.normalize # "ok" THEN [err |-> "normalize path failed", reg |-> reg]
    ELSE IF home.open # "ok" THEN [err |-> "open file failed", reg |-> reg]
    ELSE CredentialsFromDockerConfig(reg, home.reader)

\* http.NewRequest refuses a URL that holds an ASCII control byte (the other
\* causes of a parse failure do not arise for the names drawn below)
NewRequestFails(url) == \E i \in 1..Len(url) : url[i] < 32 \/ url[i] = 127

\* fmt.Sprintf(`{"username": "%s", "password": "%s"}`, r.Username, r.Password)
LoginBody(reg) ==
    <<123, 34, 117, 115, 101, 114, 110, 97, 109, 101, 34, 58, 32, 34>>
    \o reg.Username
    \o <<34, 44, 32, 34, 112, 97, 115, 115, 119, 111, 114, 100, 34, 58, 32, 34>>
    \o reg.Password
    \o <<34, 125>>

\* the request GetToken builds
LoginRequest(reg) ==
    [method      |-> "POST",
     url         |-> Url(reg.Name) \o LoginPath,
     contentType |-> "application/json",
     body        |-> LoginBody(reg)]

\* a faulty variant of GetToken: the status code is not looked at
GetTokenIgnoresStatus(reg, net) ==
    LET req  == LoginRequest(reg)
        data == JsonDecodeObject(net.body)
    IN  IF NewRequestFails(req.url)
        THEN [token |-> <<>>, err |-> "create request failed", sent |-> <<>>]
        ELSE IF net.transport # "ok"
        THEN [token |-> <<>>, err |-> "request failed", sent |-> <<req>>]
        ELSE IF ~data.ok
        THEN [token |-> <<>>, err |-> "decode response failed", sent |-> <<req>>]
        ELSE [token |-> JsonField(data.members, TokenKey), err |-> "nil",
              sent  |-> <<req>>]

\* Registry.GetToken.  net is what the transport answers: [transport, status,
\* body].  The result is [token, err, sent], sent the requests handed to the
\* HTTP client.
GetToken(reg, net) ==
    LET req  == LoginRequest(reg)
        data == JsonDecodeObject(net.body)
    IN  IF NewRequestFails(req.url)
        THEN [token |-> <<>>, err |-> "create request failed", sent |-> <<>>]
        ELSE IF net.transport # "ok"
        THEN [token |-> <<>>, err |-> "request failed", sent |-> <<req>>]
        ELSE IF net.status \div 100 # 2
        THEN [token |-> <<>>, err |-> "status code != 2xx", sent |-> <<req>>]
        ELSE IF ~data.ok
        THEN [token |-> <<>>, err |-> "decode response failed", sent |-> <<req>>]
        ELSE [token |-> JsonField(data.members, TokenKey), err |-> "nil",
              sent  |-> <<req>>]

\* http.Request.SetBasicAuth: the Authorization header is replaced
SetBasicAuth(req, username, password) ==
    [req EXCEPT !.Authorization =
        <<BasicScheme \o Base64Encode(username \o Colon \o password)>>]

\* a faulty variant of SetAuth: basic auth as soon as one of username and
\* password is non-empty
SetAuthEitherCredential(reg, req, net) ==
    IF IsDockerHub(reg.Name)
    THEN LET got == GetToken(reg, net)
         IN  IF got.err # "nil"
             THEN [err |-> "get token failed", req |-> req, sent |-> got.sent]
             ELSE [err  |-> "nil",
                   req  |-> [req EXCEPT !.Authorization =
                                Append(@, JwtScheme \o got.token)],
                   sent |-> got.sent]
    ELSE IF reg.Username # <<>> \/ reg.Password # <<>>
    THEN [err  |-> "nil",
          req  |-> SetBasicAuth(req, reg.Username, reg.Password),
          sent |-> <<>>]
    ELSE [err |-> "nil", req |-> req, sent |-> <<>>]

\* Registry.SetAuth.  req is the outgoing request, [Authorization], the
\* values of that header.  The result is [err, req, sent].
SetAuth(reg, req, net) ==
    IF IsDockerHub(reg.Name)
    THEN LET got == GetToken(reg, net)
         IN  IF got.err # "nil"
             THEN [err |-> "get token failed", req |-> req, sent |-> got.sent]
             ELSE [err  |-> "nil",
                   req  |-> [req EXCEPT !.Authorization =
                                Append(@, JwtScheme \o got.token)],
                   sent |-> got.sent]
    ELSE IF reg.Username # <<>> /\ reg.Password # <<>>
    THEN [err  |-> "nil",
          req  |-> SetBasicAuth(req, reg.Username, reg.Password),
          sent |-> <<>>]
    ELSE [err |-> "nil", req |-> req, sent |-> <<>>]

(* ------------------------------- state --------------------------------- *)

VARIABLES
    r,            \* the Registry value: [Name, Token, Username, Password]
    op,           \* the operation on r whose results the caller holds, or "idle"
    err,          \* the error it returned
    reader,       \* CredentialsFromDockerConfig: the stream it was given
    net,          \* GetToken: what the transport answered
    reqIn,        \* SetAuth: the outgoing request as passed in
    reqOut,       \* SetAuth: the outgoing request as left
    token,        \* GetToken: the token returned
    sent,         \* GetToken / SetAuth: the login requests handed to the client
    pc,           \* do: the statement the command is at
    flags,        \* the command line: [registry, username, password,
                  \*                    passwordFile, credentialsFromFile]
    password,     \* do: its local variable password
    file,         \* the password file as do found it (none before it reads)
    home,         \* ~/.docker/config.json as found (none before it is read)
    calls,        \* do: the calls made so far, each [fn, reg, err]
    repositories, \* do: its local variable repositories
    ret,          \* do: the error it returned
    out           \* the lines written to the writer

libVars == <<op, err, reader, net, reqIn, reqOut, token, sent>>
cmdVars == <<pc, flags, password, file, home, calls, repositories, ret, out>>
vars == <<r, op, err, reader, net, reqIn, reqOut, token, sent,
          pc, flags, password, file, home, calls, repositories, ret, out>>

(* ------------------------------- inputs -------------------------------- *)

\* "r.io", a private registry
Private == <<114, 46, 105, 111>>
\* "\n", a name no URL can hold
Unparsable == <<10>>
\* the registry names drawn: "", "docker.io", "r.io", the store's key of the
\* hub used as a name, and "\n"
Names == {<<>>, DockerHub, Private, IndexUrl, Unparsable}

\* the bytes 'a' and ':' of explicit usernames and passwords and of auth blobs
PlainChars == {97, 58}
\* the initial Token of a Registry: "" or "t"
Tokens == {<<>>, <<116>>}

EmptyMap == [k \in {} |-> <<>>]
Malformed == [json |-> "malformed", auths |-> EmptyMap]

\* the decoded auth blobs of the store
Blobs == StrUpTo(PlainChars, MaxBlobLen)
\* auth strings that are no base64: "YTp" (cut short) and "!!!!"
BadAuths == {<<89, 84, 112>>, <<33, 33, 33, 33>>}
Auths == {Base64Encode(b) : b \in Blobs} \cup BadAuths

\* the domains a store holds entries for
StoreKeys == {DockerHub, IndexUrl, Private}
\* the entry a store with several domains holds for domain k: base64 of
\* "<first byte of k>:p"
OwnAuth(k) == Base64Encode(<<k[1], 58, 112>>)

\* stores with one entry of any auth string, and stores with any set of
\* domains, each with its own credentials
AuthMaps ==
    {[k \in {t} |-> a] : t \in {IndexUrl, Private}, a \in Auths}
    \cup {[k \in D |-> OwnAuth(k)] : D \in SUBSET StoreKeys}
Readers == {Malformed} \cup {[json |-> "ok", auths |-> m] : m \in AuthMaps}

\* login responses: the status codes and bodies drawn
Statuses == {199, 200, 299, 300, 401}
\* {"token": "tk"}, the same cut short, and {}
Bodies ==
    {<<123, 34, 116, 111, 107, 101, 110, 34, 58, 32, 34, 116, 107, 34, 125>>,
     <<123, 34, 116, 111, 107, 101, 110, 34, 58, 32, 34, 116, 107, 34>>,
     <<123, 125>>}
NoNet == [transport |-> "fail", status |-> 0, body |-> <<>>]
Nets ==
    {NoNet} \cup
    {[transport |-> "ok", status |-> st, body |-> b] : st \in Statuses, b \in Bodies}

\* outgoing requests: without an Authorization header, and with one ("x")
NoReq == [Authorization |-> <<>>]
Reqs == {NoReq, [Authorization |-> <<<<120>>>>]}

\* the password file: unreadable, or holding "", "\n", "s\n" or " s s \n"
Files ==
    {[readable |-> FALSE, content |-> <<>>]} \cup
    {[readable |-> TRUE, content |-> c] :
        c \in {<<>>, <<10>>, <<115, 10>>, <<32, 115, 32, 115, 32, 10>>}}

\* ~/.docker/config.json: its path cannot be normalized, it cannot be opened,
\* or it holds one of these documents
HomeAuths ==
    {Base64Encode(b) : b \in {<<>>, <<98>>, <<98, 58>>, <<98, 58, 99>>,
                              <<98, 58, 99, 58>>}}
    \cup BadAuths
HomeReaders ==
    {Malformed} \cup
    {[json |-> "ok", auths |-> m] :
        m \in {[k \in {t} |-> a] : t \in {IndexUrl, Private}, a \in HomeAuths}
              \cup {[k \in D |-> OwnAuth(k)] : D \in SUBSET StoreKeys}}
Homes ==
    {[normalize |-> "fail", open |-> "fail", reader |-> Malformed],
     [normalize |-> "ok", open |-> "fail", reader |-> Malformed]}
    \cup {[normalize |-> "ok", open |-> "ok", reader |-> rd] : rd \in HomeReaders}

(* --------------------- the Registry and its callers --------------------- *)

NoFlags ==
    [registry |-> <<>>, username |-> <<>>, password |-> <<>>,
     passwordFile |-> <<>>, credentialsFromFile |-> FALSE]

\* the command is not running
CmdIdle ==
    /\ pc = "idle" /\ flags = NoFlags /\ password = <<>> /\ file = <<>>
    /\ home = <<>> /\ calls = <<>> /\ repositories = <<>>
    /\ ret = "nil" /\ out = <<>>

\* no operation's results are held
LibIdle ==
    /\ op = "idle" /\ err = "nil" /\ reader = Malformed /\ net = NoNet
    /\ reqIn = NoReq /\ reqOut = NoReq /\ token = <<>> /\ sent = <<>>

\* a caller holds a Registry it filled in
Init ==
    /\ r \in [Name : Names, Token : Tokens,
              Username : StrUpTo(PlainChars, MaxLen),
              Password : StrUpTo(PlainChars, MaxLen)]
    /\ LibIdle
    /\ CmdIdle

ValidateCall ==
    /\ op = "idle"
    /\ op' = "Validate"
    /\ err' = Validate(r)
    /\ reader' = Malformed /\ net' = NoNet /\ reqIn' = NoReq /\ reqOut' = NoReq
    /\ token' = <<>> /\ sent' = <<>>
    /\ UNCHANGED <<r, cmdVars>>

CredentialsCall ==
    /\ op = "idle"
    /\ \E rd \in Readers :
        LET res == CredentialsFromDockerConfig(r, rd)
        IN  /\ op' = "CredentialsFromDockerConfig"
            /\ reader' = rd
            /\ err' = res.err
            /\ r' = res.reg
            /\ net' = NoNet /\ reqIn' = NoReq /\ reqOut' = NoReq
            /\ token' = <<>> /\ sent' = <<>>
            /\ UNCHANGED cmdVars

ReadCredentialsCall ==
    /\ op = "idle"
    /\ \E h \in Homes :
        LET res == ReadCredentialsFromDockerConfig(r, h)
        IN  /\ op' = "ReadCredentialsFromDockerConfig"
            /\ home' = <<h>>
            /\ err' = res.err
            /\ r' = res.reg
            /\ reader' = Malformed /\ net' = NoNet /\ reqIn' = NoReq
            /\ reqOut' = NoReq /\ token' = <<>> /\ sent' = <<>>
            /\ UNCHANGED <<pc, flags, password, file, calls, repositories, ret,
                           out>>

GetTokenCall ==
    /\ op = "idle"
    /\ \E n \in Nets :
        LET res == GetToken(r, n)
        IN  /\ op' = "GetToken"
            /\ net' = (IF res.sent = <<>> THEN NoNet ELSE n)
            /\ err' = res.err
            /\ token' = res.token
            /\ sent' = res.sent
            /\ reader' = Malformed /\ reqIn' = NoReq /\ reqOut' = NoReq
            /\ UNCHANGED <<r, cmdVars>>

SetAuthCall ==
    /\ op = "idle"
    /\ \E n \in Nets, rq \in Reqs :
        LET res == SetAuth(r, rq, n)
        IN  /\ op' = "SetAuth"
            /\ net' = (IF res.sent = <<>> THEN NoNet ELSE n)
            /\ reqIn' = rq
            /\ reqOut' = res.req
            /\ err' = res.err
            /\ sent' = res.sent
            /\ reader' = Malformed /\ token' = <<>>
            /\ UNCHANGED <<r, cmdVars>>

\* the caller is done with what the operation returned; the Registry stays
Return ==
    /\ op # "idle"
    /\ op' = "idle" /\ err' = "nil" /\ reader' = Malformed /\ net' = NoNet
    /\ reqIn' = NoReq /\ reqOut' = NoReq /\ token' = <<>> /\ sent' = <<>>
    /\ home' = <<>>
    /\ UNCHANGED <<r, pc, flags, password, file, calls, repositories, ret, out>>

Next ==
    \/ ValidateCall
    \/ CredentialsCall
    \/ ReadCredentialsCall
    \/ GetTokenCall
    \/ SetAuthCall
    \/ Return

Spec == Init /\ [][Next]_vars

\* the login request seen with usernames and passwords that hold '"' and '\'
CredChars == {97, 34, 92}

InitLogin ==
    /\ r \in [Name : {DockerHub, Private}, Token : {<<>>},
              Username : StrUpTo(CredChars, MaxCredLen),
              Password : StrUpTo(CredChars, MaxCredLen)]
    /\ LibIdle
    /\ CmdIdle

SpecLogin == InitLogin /\ [][Next]_vars

(* -------------------- docker_remote_repositories.go --------------------- *)

\* the flag values drawn: the registry, explicit username and password over
\* 'a', a password-file path ("" or "f"), and the credentials-from-store switch
FlagSets ==
    [registry            : {<<>>, DockerHub, Private},
     username            : StrUpTo({97}, MaxLen),
     password            : StrUpTo({97}, MaxLen),
     passwordFile        : {<<>>, <<102>>},
     credentialsFromFile : BOOLEAN]

\* repositories.Repositories.List: an error, or the repositories "a" and "b"
\* in any order and number up to MaxRepos.  A slice may come with the error;
\* do does not look at it.
ListResults ==
    [repositories : StrUpTo({<<97>>, <<98>>}, MaxRepos),
     err          : {"nil", "list failed"}]

ZeroRegistry ==
    [Name |-> <<>>, Token |-> <<>>, Username |-> <<>>, Password |-> <<>>]

\* flag.Parse has run and main calls do
InitDo ==
    /\ pc = "password"
    /\ flags \in FlagSets
    /\ r = ZeroRegistry
    /\ password = <<>> /\ file = <<>> /\ home = <<>> /\ calls = <<>>
    /\ repositories = <<>> /\ ret = "nil" /\ out = <<>>
    /\ LibIdle

Call(fn, reg, e) == [fn |-> fn, reg |-> reg, err |-> e]

\* do, lines 36-43: the explicit password, or the password file's when a
\* password file is named
DoPassword ==
    /\ pc = "password"
    /\ IF Len(flags.passwordFile) > 0
       THEN \E f \in Files :
                LET res == RegistryPasswordFromFile(f)
                IN  /\ file' = <<f>>
                    /\ calls' = Append(calls,
                                  Call("RegistryPasswordFromFile", r, res.err))
                    /\ password' = res.password
                    /\ IF res.err # "nil"
                       THEN pc' = "returned" /\ ret' = res.err
                       ELSE pc' = "registry" /\ ret' = ret
       ELSE /\ password' = flags.password
            /\ pc' = "registry"
            /\ UNCHANGED <<file, calls, ret>>
    /\ UNCHANGED <<r, flags, home, repositories, out, libVars>>

\* a faulty variant of DoRegistry: the password flag is used even when a
\* password file was read
DoRegistryExplicitPassword ==
    /\ pc = "registry"
    /\ r' = [Name     |-> flags.registry,
             Token    |-> <<>>,
             Username |-> flags.username,
             Password |-> flags.password]
    /\ pc' = "credentials"
    /\ UNCHANGED <<flags, password, file, home, calls, repositories, ret, out,
                   libVars>>

\* do, lines 44-48
DoRegistry ==
    /\ pc = "registry"
    /\ r' = [Name     |-> flags.registry,
             Token    |-> <<>>,
             Username |-> flags.username,
             Password |-> password]
    /\ pc' = "credentials"
    /\ UNCHANGED <<flags, password, file, home, calls, repositories, ret, out,
                   libVars>>

\* do, lines 49-53
DoCredentials ==
    /\ pc = "credentials"
    /\ IF flags.credentialsFromFile
       THEN \E h \in Homes :
                LET res == ReadCredentialsFromDockerConfig(r, h)
                IN  /\ home' = <<h>>
                    /\ r' = res.reg
                    /\ calls' = Append(calls,
                                  Call("ReadCredentialsFromDockerConfig",
                                       res.reg, res.err))
                    /\ IF res.err # "nil"
                       THEN pc' = "returned" /\ ret' = "read credentials failed"
                       ELSE pc' = "validate" /\ ret' = ret
       ELSE /\ pc' = "validate"
            /\ UNCHANGED <<r, home, calls, ret>>
    /\ UNCHANGED <<flags, password, file, repositories, out, libVars>>

\* a faulty variant of DoValidate: the error of Validate is dropped
DoValidateUnchecked ==
    /\ pc = "validate"
    /\ calls' = Append(calls, Call("Validate", r, Validate(r)))
    /\ pc' = "list"
    /\ UNCHANGED <<r, flags, password, file, home, repositories, ret, out,
                   libVars>>

\* do, lines 54-57
DoValidate ==
    /\ pc = "validate"
    /\ calls' = Append(calls, Call("Validate", r, Validate(r)))
    /\ IF Validate(r) # "nil"
       THEN pc' = "returned" /\ ret' = "validate registry failed"
       ELSE pc' = "list" /\ ret' = ret
    /\ UNCHANGED <<r, flags, password, file, home, repositories, out, libVars>>

\* a faulty variant of DoList: what List returned is written whatever the error
DoListWritesDespiteError ==
    /\ pc = "list"
    /\ \E res \in ListResults :
        /\ calls' = Append(calls, Call("List", r, res.err))
        /\ repositories' = res.repositories
        /\ pc' = "write"
    /\ UNCHANGED <<r, flags, password, file, home, ret, out, libVars>>

\* do, lines 58-62
DoList ==
    /\ pc = "list"
    /\ \E res \in ListResults :
        /\ calls' = Append(calls, Call("List", r, res.err))
        /\ repositories' = res.repositories
        /\ IF res.err # "nil"
           THEN pc' = "returned" /\ ret' = res.err
           ELSE pc' = "write" /\ ret' = ret
    /\ UNCHANGED <<r, flags, password, file, home, out, libVars>>

\* do, lines 63-65: one turn of the loop writes "<repository>\n" to the
\* writer, os.Stdout, which takes every write
DoWrite ==
    /\ pc = "write"
    /\ Len(out) < Len(repositories)
    /\ out' = Append(out, repositories[Len(out) + 1] \o <<10>>)
    /\ UNCHANGED <<r, pc, flags, password, file, home, calls, repositories, ret,
                   libVars>>

\* do, line 66
DoReturn ==
    /\ pc = "write"
    /\ Len(out) = Len(repositories)
    /\ pc' = "returned"
    /\ ret' = "nil"
    /\ UNCHANGED <<r, flags, password, file, home, calls, repositories, out,
                   libVars>>

\* main, lines 30-33: glog.Exit on an error, else the process ends normally
MainExit ==
    /\ pc = "returned"
    /\ pc' = (IF ret # "nil" THEN "exit 1" ELSE "exit 0")
    /\ UNCHANGED <<r, flags, password, file, home, calls, repositories, ret, out,
                   libVars>>

NextDo ==
    \/ DoPassword
    \/ DoRegistry
    \/ DoCredentials
    \/ DoValidate
    \/ DoList
    \/ DoWrite
    \/ DoReturn
    \/ MainExit

SpecDo == InitDo /\ [][NextDo]_vars

(* ------------------------------- claims -------------------------------- *)

Bytes(s) == {s[i] : i \in 1..Len(s)}

\* C1: Validate returns an error exactly when Name, Username or Password is
\* the empty string; Token plays no part.
ValidateFailsIffEmpty ==
    op = "Validate" =>
        ((err # "nil") <=>
            (r.Name = <<>> \/ r.Username = <<>> \/ r.Password = <<>>))

\* Validate has refused a Registry whose only empty field is Password
ValidateRefusedEmptyPassword ==
    /\ op = "Validate" /\ err = "password empty"
    /\ r.Name # <<>> /\ r.Username # <<>> /\ r.Password = <<>>
    /\ r.Token # <<>>

\* C2: SetAuth does exactly one of three things.  For the hub it sends one
\* login request, whatever the username and password, and on success adds
\* "JWT <token>" to the Authorization header, on failure returns an error
\* and leaves the request alone.  For another registry with username and
\* password both non-empty it sets basic auth with that pair and sends no
\* login.  Otherwise it leaves the request alone, sends nothing and returns
\* no error.
SetAuthThreeWays ==
    op = "SetAuth" =>
        IF r.Name = DockerHub
        THEN /\ Len(sent) = 1
             /\ IF err = "nil"
                THEN /\ net.transport = "ok"
                     /\ reqOut.Authorization =
                            Append(reqIn.Authorization,
                                   JwtScheme \o
                                   JsonField(JsonDecodeObject(net.body).members,
                                             TokenKey))
                ELSE reqOut = reqIn
        ELSE IF r.Username # <<>> /\ r.Password # <<>>
        THEN /\ sent = <<>>
             /\ err = "nil"
             /\ reqOut.Authorization =
                    <<BasicScheme \o
                      Base64Encode(r.Username \o <<58>> \o r.Password)>>
        ELSE /\ sent = <<>>
             /\ err = "nil"
             /\ reqOut = reqIn

\* SetAuth has logged in to the hub with an empty username and added the token
SetAuthHubLoginWithoutUsername ==
    /\ op = "SetAuth" /\ r.Name = DockerHub /\ r.Username = <<>>
    /\ err = "nil" /\ Len(sent) = 1
    /\ reqOut.Authorization = <<JwtScheme \o <<116, 107>>>>

\* the store's key for the Registry's name
StoreKeyOf(name) == IF name = DockerHub THEN IndexUrl ELSE name

\* C3: the entry is looked up under "https://index.docker.io/v1/" for the
\* hub and under the name itself otherwise.  When that key is absent the call
\* fails, whatever other domains the store holds; when it is present the
\* outcome is that of this entry: its base64 failure, its split failure, or
\* its credentials.
LookupUnderStoreKey ==
    (op = "CredentialsFromDockerConfig" /\ reader.json = "ok") =>
        LET key == StoreKeyOf(r.Name)
        IN  IF key \notin DOMAIN reader.auths
            THEN err = "domain not found in docker config"
            ELSE LET blob == Base64Decode(reader.auths[key])
                 IN  /\ err \in {"nil", "base64 decode auth failed",
                                 "split auth failed"}
                     /\ (err = "base64 decode auth failed") <=> ~blob.ok
                     /\ err = "nil" =>
                            r.Username \o <<58>> \o r.Password = blob.value

\* extraction for the hub has failed on a store that holds "docker.io" (and
\* another domain) but not the hub's key
HubNotFoundBesideDockerIo ==
    /\ op = "CredentialsFromDockerConfig" /\ reader.json = "ok"
    /\ r.Name = DockerHub
    /\ DOMAIN reader.auths = {DockerHub, Private}
    /\ err = "domain not found in docker config"

\* C4: a decoded blob with a ':' is cut at its first ':' only: the call
\* succeeds, Username is what precedes it (so holds no ':'), Password what
\* follows it, and Username ++ ":" ++ Password is the blob.  A blob without
\* ':' makes the call fail.
SplitAtFirstColon ==
    (/\ op = "CredentialsFromDockerConfig" /\ reader.json = "ok"
     /\ StoreKeyOf(r.Name) \in DOMAIN reader.auths
     /\ Base64Decode(reader.auths[StoreKeyOf(r.Name)]).ok) =>
        LET blob == Base64Decode(reader.auths[StoreKeyOf(r.Name)]).value
        IN  IF 58 \in Bytes(blob)
            THEN /\ err = "nil"
                 /\ 58 \notin Bytes(r.Username)
                 /\ r.Username \o <<58>> \o r.Password = blob
            ELSE err = "split auth failed"

\* extraction has succeeded on a blob with two ':' and kept the second in
\* the password
SecondColonInPassword ==
    /\ op = "CredentialsFromDockerConfig" /\ err = "nil"
    /\ r.Username = <<97>> /\ r.Password = <<58, 97>>
    /\ Base64Decode(reader.auths[StoreKeyOf(r.Name)]).value = <<97, 58, 58, 97>>

\* C5: a step changes the Registry only when it is a successful extraction,
\* and then only Username and Password; a failed extraction, Validate,
\* GetToken and SetAuth leave every field alone.  The token GetToken obtains
\* is not stored in Token, and each hub SetAuth sends its own login request.
OnlyExtractionChangesRegistry ==
    [][/\ r' # r =>
            /\ op' \in {"CredentialsFromDockerConfig",
                        "ReadCredentialsFromDockerConfig"}
            /\ err' = "nil"
            /\ r'.Name = r.Name /\ r'.Token = r.Token
       /\ (op' = "SetAuth" /\ r'.Name = DockerHub) => Len(sent') = 1]_vars

\* GetToken has returned a token and the Registry's Token is not it
TokenObtainedNotStored ==
    /\ op = "GetToken" /\ err = "nil" /\ token = <<116, 107>>
    /\ r.Token = <<>>

\* C6: for an answered login, a status outside 200..299 gives an error and
\* no token, whatever the body; a status inside gives an error exactly when
\* the body does not decode.
StatusBeforeBody ==
    (op = "GetToken" /\ Len(sent) = 1 /\ net.transport = "ok") =>
        IF net.status \in 200..299
        THEN (err = "nil") <=> JsonDecodeObject(net.body).ok
        ELSE err = "status code != 2xx" /\ token = <<>>

\* GetToken has refused a 401 whose body is a well-formed token document
RefusedWellFormedBody ==
    /\ op = "GetToken" /\ net.transport = "ok" /\ net.status = 401
    /\ JsonDecodeObject(net.body).ok
    /\ JsonField(JsonDecodeObject(net.body).members, TokenKey) = <<116, 107>>
    /\ err = "status code != 2xx" /\ token = <<>>

\* C7: the login request is a POST to <Url(Name)>/v2/users/login/ with
\* Content-Type application/json whose body is a JSON object with members
\* "username" and "password" that decode to the Registry's Username and
\* Password.
LoginBodyDecodesBack ==
    (op = "GetToken" /\ Len(sent) = 1) =>
        LET doc == JsonDecodeObject(sent[1].body)
        IN  /\ sent[1].method = "POST"
            /\ sent[1].url = Url(r.Name) \o LoginPath
            /\ sent[1].contentType = "application/json"
            /\ doc.ok
            /\ JsonField(doc.members, UsernameKey) = r.Username
            /\ JsonField(doc.members, PasswordKey) = r.Password

\* the last call do has made
LastCall == calls[Len(calls)]

\* C8: every call of List comes right after a call of Validate that returned
\* no error on the same Registry value, so Name, Username and Password are
\* non-empty when List is called; after a failed Validate there is no call
\* of List.
ListOnlyAfterValidate ==
    /\ \A i \in 1..Len(calls) :
        calls[i].fn = "List" =>
            /\ i > 1
            /\ calls[i - 1].fn = "Validate"
            /\ calls[i - 1].err = "nil"
            /\ calls[i - 1].reg = calls[i].reg
            /\ calls[i].reg.Name # <<>>
            /\ calls[i].reg.Username # <<>>
            /\ calls[i].reg.Password # <<>>
    /\ (\E i \in 1..Len(calls) : calls[i].fn = "Validate" /\ calls[i].err # "nil")
        => \A j \in 1..Len(calls) : calls[j].fn # "List"

\* List has been called with credentials that came from the store, the
\* username flag being empty
ListedWithStoreCredentials ==
    /\ calls # <<>> /\ LastCall.fn = "List"
    /\ flags.credentialsFromFile /\ flags.username = <<>>
    /\ LastCall.reg.Username = <<98>>

\* C9: the username and password Validate checks come from one source.  With
\* store extraction requested, extraction ran right before Validate,
\* succeeded, and they are the two sides of the first ':' of the store's
\* entry, whatever the flags and the password file said.  Without it, the
\* username is the username flag and the password is the one read from the
\* password file (RegistryPasswordFromFile: its content without the
\* surrounding white space) when a password file is named, and the password
\* flag otherwise.
OneCredentialSource ==
    \A i \in 1..Len(calls) :
        calls[i].fn = "Validate" =>
            LET v == calls[i].reg
            IN  IF flags.credentialsFromFile
                THEN /\ i > 1
                     /\ calls[i - 1].fn = "ReadCredentialsFromDockerConfig"
                     /\ calls[i - 1].err = "nil"
                     /\ Len(home) = 1
                     /\ home[1].normalize = "ok" /\ home[1].open = "ok"
                     /\ home[1].reader.json = "ok"
                     /\ StoreKeyOf(v.Name) \in DOMAIN home[1].reader.auths
                     /\ LET blob == Base64Decode(
                                        home[1].reader.auths[StoreKeyOf(v.Name)])
                        IN  /\ blob.ok
                            /\ 58 \notin Bytes(v.Username)
                            /\ v.Username \o <<58>> \o v.Password = blob.value
                ELSE /\ home = <<>>
                     /\ v.Username = flags.username
                     /\ IF Len(flags.passwordFile) > 0
                        THEN /\ Len(file) = 1 /\ file[1].readable
                             /\ v.Password = TrimSpace(file[1].content)
                        ELSE v.Password = flags.password

\* Validate has checked the store's credentials although a username flag
\* and a password file were given
StoreOverwroteFlagsAndFile ==
    /\ calls # <<>> /\ LastCall.fn = "Validate"
    /\ flags.credentialsFromFile
    /\ flags.username = <<97>> /\ Len(file) = 1
    /\ TrimSpace(file[1].content) = <<115>>
    /\ LastCall.reg.Username = <<98>> /\ LastCall.reg.Password = <<99, 58>>

\* C10: a call that failed (reading the password file, extraction,
\* validation, listing) is the last call do made: do has returned an error,
\* main exits with a failure, and nothing has been written.  What has been
\* written are the first lines of what List returned without error, one
\* "<repository>\n" per repository in order, and all of them once do has
\* returned nil.
ErrorsReturnedNothingWritten ==
    /\ \A i \in 1..Len(calls) :
        calls[i].err # "nil" =>
            /\ i = Len(calls)
            /\ pc \in {"returned", "exit 1"}
            /\ ret # "nil"
            /\ out = <<>>
    /\ Len(out) <= Len(repositories)
    /\ \A k \in 1..Len(out) : out[k] = repositories[k] \o <<10>>
    /\ out # <<>> => (LastCall.fn = "List" /\ LastCall.err = "nil")
    /\ (pc \in {"returned", "exit 0", "exit 1"} /\ ret = "nil") =>
            /\ calls # <<>> /\ LastCall.fn = "List" /\ LastCall.err = "nil"
            /\ Len(out) = Len(repositories)
    /\ pc = "exit 0" => ret = "nil"
    /\ pc = "exit 1" => ret # "nil"

\* List has failed while returning repositories, and do has returned its
\* error without writing a line
ListFailedNothingWritten ==
    /\ pc = "exit 1" /\ ret = "list failed"
    /\ LastCall.fn = "List" /\ Len(repositories) = MaxRepos
    /\ out = <<>>

====
